---------------------------- MODULE Spec2Model ----------------------------
(***************************************************************************)
(* Frame-acquisition, lifecycle and input-dispatch behaviour of the App    *)
(* component of tauri-nes.  The repository holds several versions of the   *)
(* component; `variant` says which one is mounted:                         *)
(*   "part_001"  src/unnamed/part_001 (romStatus / isRunning / testMode,   *)
(*               drawFrame as a useCallback)                               *)
(*   "App.tsx"   src/src/App.tsx      (romLoaded, runEmulatorLoop,         *)
(*               controllerState)                                          *)
(*   "part_000"  src/unnamed/part_000 (as App.tsx, drawFrame with the      *)
(*               debug overlay)                                            *)
(*   "app.tsx"   src/src/app.tsx      (runFrame)                           *)
(*                                                                         *)
(* React is modelled as follows.  A state setter and the re-render (with   *)
(* the effects whose dependencies changed) it causes are one step.  A      *)
(* closure is represented by the values it captured.  An `await` splits a  *)
(* function into steps: the request is a record in `inflight`, `dialogs`   *)
(* or `toggles`, and its resolution is an action of its own.  A callback   *)
(* handed to requestAnimationFrame is a record in `raf`.                   *)
(* part_001 lists drawFrame among the dependencies of its own useCallback; *)
(* the model is of a build in which that reads `undefined` (the component  *)
(* renders), so drawFrame changes identity with canvasCtx and isRunning.   *)
(***************************************************************************)
EXTENDS Integers, Sequences, FiniteSets, TLC

VARIABLES
    variant,            \* which version of App is mounted
    phase,              \* "init" (rendered, effects not run), "mounted", "unmounted"
    canvasCtx,          \* part_001 useState canvasCtx: FALSE is null
    romLoaded,          \* useState romLoaded
    romStatus,          \* part_001 useState romStatus
    isRunning,          \* part_001 useState isRunning
    frameCount,         \* part_001 useState frameCount
    testMode,           \* part_001 useState testMode
    animationFrameId,   \* useRef: 0 initial, Stale = an id that is no longer pending
    raf,                \* pending requestAnimationFrame callbacks [id, run]
    inflight,           \* outstanding frame requests, oldest first: [run]
    dialogs,            \* openDialog invocations suspended at an await
    toggles,            \* outstanding test-mode round trips
    canvas,             \* the canvas element: [width, height, paint, pix]
    controllerState,    \* App.tsx / part_000 controllerState (inside the effect)
    dispatched,         \* engine side: input dispatches received, in order
    edges,              \* environment: key edges on mapped keys delivered, in order
    fetchFailed,        \* history: a frame request has been rejected
    settled,            \* per entry of edges: "pending", "ok" or "failed" dispatch
    ev                  \* what the last step did

vars == <<variant, phase, canvasCtx, romLoaded, romStatus, isRunning, frameCount,
          testMode, animationFrameId, raf, inflight, dialogs, toggles,
          canvas, controllerState, dispatched, edges, fetchFailed, settled, ev>>

-----------------------------------------------------------------------------
(* Bounds of the model *)

\* at most this many loop chains (requests in flight plus pending callbacks)
MaxChains == 2
\* at most this many openDialog invocations suspended at once
MaxDialogs == 2
\* at most this many key edges are recorded
MaxEdges == 2
\* at most this many test-mode round trips outstanding at once
MaxToggles == 2

Stale == -1

Variants == {"part_001", "App.tsx", "part_000"}
LoopVariants == {"App.tsx", "part_000"}


-----------------------------------------------------------------------------
(* Frame payloads: what the engine's frame command resolves to *)

\* frames are FrameW0 x FrameH0, or FrameW1 x FrameH0 for the "wide" shape
FrameW0 == 1
FrameW1 == 2
FrameH0 == 1
BytesPerPixel == 4

\* shapes of payload the engine may answer with
Shapes == {"exact", "short", "long", "wide", "zerodim", "string", "null"}

ShapeW(s) == CASE s = "wide" -> FrameW1 [] s = "zerodim" -> 0 [] OTHER -> FrameW0
ShapeH(s) == FrameH0
ShapeLen(s) ==
    CASE s = "exact" -> FrameW0 * FrameH0 * BytesPerPixel
      [] s = "short" -> FrameW0 * FrameH0 * BytesPerPixel - 1
      [] s = "long" -> FrameW0 * FrameH0 * BytesPerPixel + 1
      [] s = "wide" -> FrameW1 * FrameH0 * BytesPerPixel
      [] OTHER -> 0
ShapeType(s) == CASE s = "string" -> "string" [] s = "null" -> "null" [] OTHER -> "array"

\* the payload of shape s; every byte the engine sends is PixelByte
PixelByte == 255
FrameData(s) ==
    [width |-> ShapeW(s), height |-> ShapeH(s), ptype |-> ShapeType(s),
     pixels |-> [i \in 1..ShapeLen(s) |-> PixelByte]]

\* a valid frame: an array of exactly width*height*4 bytes, positive dimensions
ValidShape(s) == s \in {"exact", "wide"}

\* createImageData(w, h).data after copying the first bytes of p into it
Pad(p, n) == [i \in 1..n |-> IF i <= Len(p) THEN p[i] ELSE 0]

Paint(cv, paint, pix) == [cv EXCEPT !.paint = paint, !.pix = pix]
\* a canvas that keeps its size
ResizeNever(cv, w, h) == cv

\* assigning width or height resets the bitmap
Resize(cv, w, h) == [width |-> w, height |-> h, paint |-> "blank", pix |-> <<>>]

\* part_001 drawFrame, the body of its try block after a frame has arrived.
\* outcome: what was put on the canvas; stop: the early `return` of line 113
drawFrameBody(cv, f) ==
    IF f.ptype = "null"
    THEN \* frameDataResult.pixels.length throws: the catch block draws the error
         [canvas |-> Paint(cv, "error", <<>>), outcome |-> "error", stop |-> FALSE]
    ELSE IF f.width > 0 /\ f.height > 0
    THEN LET cv1 == IF cv.width # f.width \/ cv.height # f.height
                    THEN Resize(cv, f.width, f.height) ELSE cv
             need == f.width * f.height * BytesPerPixel
         IN IF f.ptype = "array"
            THEN IF Len(f.pixels) > need
                 THEN \* imageData.data.set throws a RangeError
                      [canvas |-> Paint(cv1, "error", <<>>), outcome |-> "error",
                       stop |-> FALSE]
                 ELSE [canvas |-> Paint(cv1, "image", Pad(f.pixels, need)),
                       outcome |-> "presented", stop |-> FALSE]
            ELSE [canvas |-> Paint(cv1, "invalid", <<>>), outcome |-> "invalid",
                  stop |-> TRUE]
    ELSE [canvas |-> Paint(cv, "waiting", <<>>), outcome |-> "waiting", stop |-> FALSE]

\* part_001 drawFrame, its catch block after the frame request was rejected
drawFrameCatch(cv) ==
    [canvas |-> Paint(cv, "error", <<>>), outcome |-> "error", stop |-> FALSE]

\* the ImageData constructor accepts data only of exactly width*height*4 bytes
ImageDataOk(f) ==
    /\ f.ptype = "array"
    /\ f.width > 0 /\ f.height > 0
    /\ Len(f.pixels) = f.width * f.height * BytesPerPixel

\* App.tsx drawFrame(frameData); thrown: the exception reaches runEmulatorLoop
drawFrameApp(cv, f) ==
    LET cv1 == Resize(cv, f.width, f.height)
    IN IF ImageDataOk(f)
       THEN [canvas |-> Paint(cv1, "image", f.pixels), outcome |-> "presented",
             thrown |-> FALSE]
       ELSE [canvas |-> cv1, outcome |-> "error", thrown |-> TRUE]

\* part_000 drawFrame(frameData): its own try/catch, and the debug overlay
drawFrameDebug(cv, f) ==
    LET cv1 == Resize(cv, f.width, f.height)
        need == f.width * f.height * BytesPerPixel
    IN IF f.width > 0 /\ f.height > 0 /\ f.ptype # "null"
       THEN [canvas |-> Paint(cv1, "imageOverlay",
                              Pad(IF f.ptype = "array" THEN f.pixels ELSE <<>>, need)),
             outcome |-> "presented", thrown |-> FALSE]
       ELSE [canvas |-> cv1, outcome |-> "error", thrown |-> FALSE]


-----------------------------------------------------------------------------
(* State after construction *)

CanvasWidth == 256
CanvasHeight == 240
\* App.tsx and part_000 give the canvas element no size: the HTML default
DefaultCanvasWidth == 300
DefaultCanvasHeight == 150

keyToButtonMap ==
    [KeyZ |-> "a", KeyX |-> "b", Enter |-> "start", ShiftRight |-> "select",
     ArrowUp |-> "up", ArrowDown |-> "down", ArrowLeft |-> "left",
     ArrowRight |-> "right"]
MappedKeys == DOMAIN keyToButtonMap
Buttons == {keyToButtonMap[k] : k \in MappedKeys}
ArrowKeys == {"ArrowUp", "ArrowDown", "ArrowLeft", "ArrowRight"}
\* key codes the environment delivers: the mapped ones, Space, and an unmapped one
KeyCodes == MappedKeys \cup {"Space", "KeyQ"}

\* act: the step; fetches: frame requests it issued; shape: the answer a resumed
\* drawFrame got; pos: the place in issue order of the request answered; run: the
\* flag captured by the closure that ran
NoEvent ==
    [act |-> "none", fetches |-> 0, shape |-> "none", pos |-> 0, run |-> FALSE,
     outcome |-> "none", manual |-> 0, code |-> "", down |-> FALSE,
     prevented |-> FALSE]

Init ==
    /\ variant \in Variants
    /\ phase = "init"
    /\ canvasCtx = FALSE
    /\ romLoaded = FALSE
    /\ romStatus = <<"Not Loaded">>
    /\ isRunning = FALSE
    /\ frameCount = 0
    /\ testMode = FALSE
    /\ animationFrameId = 0
    /\ raf = {}
    /\ inflight = <<>>
    /\ dialogs = <<>>
    /\ toggles = <<>>
    /\ canvas = IF variant \in LoopVariants
                THEN [width |-> DefaultCanvasWidth, height |-> DefaultCanvasHeight,
                      paint |-> "blank", pix |-> <<>>]
                ELSE [width |-> CanvasWidth, height |-> CanvasHeight,
                      paint |-> "blank", pix |-> <<>>]
    /\ controllerState = [b \in Buttons |-> FALSE]
    /\ dispatched = <<>>
    /\ edges = <<>>
    /\ fetchFailed = FALSE
    /\ settled = <<>>
    /\ ev = NoEvent

-----------------------------------------------------------------------------
(* The frame loop's bookkeeping: requests in flight, pending callbacks, the ref *)

RemoveAt(q, i) == SubSeq(q, 1, i - 1) \o SubSeq(q, i + 1, Len(q))

Cur ==
    [raf |-> raf, inflight |-> inflight, afid |-> animationFrameId, fetches |-> 0]

Commit(L) ==
    /\ raf' = L.raf
    /\ inflight' = L.inflight
    /\ animationFrameId' = L.afid

Chains(L) == Len(L.inflight) + Cardinality(L.raf)

\* invoke('get_frame') / invoke('run_emulator_frame') by a closure that captured run
Issue(L, run) ==
    [L EXCEPT !.inflight = Append(@, [run |-> run]), !.fetches = @ + 1]

\* animationFrameId.current = requestAnimationFrame(<closure that captured run>)
Schedule(L, run) ==
    LET id == CHOOSE i \in 1..(MaxChains + 2) : i \notin {c.id : c \in L.raf}
    IN [L EXCEPT !.raf = @ \cup {[id |-> id, run |-> run]}, !.afid = id]

\* if (animationFrameId.current) cancelAnimationFrame(animationFrameId.current)
Cancel(L) ==
    IF L.afid \in {c.id : c \in L.raf}
    THEN [L EXCEPT !.raf = {c \in @ : c.id # L.afid}, !.afid = Stale]
    ELSE L

\* the browser takes callback c off its list to run it
Fired(L, c) ==
    [L EXCEPT !.raf = @ \ {c}, !.afid = IF @ = c.id THEN Stale ELSE @]

\* the request at position i of inflight has been answered
Answered(L, i) == [L EXCEPT !.inflight = RemoveAt(@, i)]


Mounted == phase = "mounted"

-----------------------------------------------------------------------------
(* src/unnamed/part_001 *)

Main == variant = "part_001"

\* romStatus is a string; the model keeps it as its sequence of words
NotLoadedStatus == <<"Not Loaded">>
LoadingStatus == <<"Loading ROM...">>
CanceledStatus == <<"Selection canceled">>
\* `ROM: ${selected.split('\\').pop()}`
RomStatusOf(file) == <<"ROM:">> \o file
\* `Error: ${error}`
ErrorStatusOf(error) == <<"Error:">> \o error
\* romStatus.includes("ROM:")
IncludesRom(st) == \E k \in 1..Len(st) : st[k] = "ROM:"
IsErrorStatus(st) == st[1] = "Error:"

\* the file the user picks, and what load_rom may reject with
SelectedFile == <<"game.nes">>
LoadErrors == {<<"io error">>, <<"bad", "ROM:", "header">>}

\* drawFrame() called on the closure that captured (ctx, run): line 72 returns
\* unless the canvas is mounted and the captured context is set
drawFrame(L, ctx, run) ==
    IF Mounted /\ ctx THEN Issue(L, run) ELSE L

\* an effect that only cancels the pending callback
useEffectDrawFrameIdle(L, ctx, run) == Cancel(L)

\* useEffect(..., [drawFrame]) re-run after drawFrame changed identity: the
\* previous run's cleanup, then the effect (setCanvasCtx, drawFrame())
useEffectDrawFrame(L, ctx, run) == drawFrame(Cancel(L), ctx, run)

\* The re-render that the mount effects queue (setCanvasCtx) commits before the
\* user can act on the page: the buttons are used once canvasCtx is set
UserReady == Mounted /\ canvasCtx

\* the first commit: both effects run with the first render's drawFrame, whose
\* canvasCtx is null, and queue setCanvasCtx(ctx)
MountMain ==
    /\ Main /\ phase = "init"
    /\ phase' = "mounted"
    /\ canvas' = Resize(canvas, CanvasWidth, CanvasHeight)
    /\ ev' = [NoEvent EXCEPT !.act = "Mount"]
    /\ UNCHANGED <<variant, settled, fetchFailed, canvasCtx, romLoaded, romStatus, isRunning, frameCount,
                   testMode, animationFrameId, raf, inflight, dialogs,
                   toggles, controllerState, dispatched, edges>>

\* the re-render with canvasCtx set: drawFrame is a new callback, the effect re-runs
CanvasCtxInit ==
    /\ Main /\ Mounted /\ ~canvasCtx
    /\ canvasCtx' = TRUE
    /\ LET L == useEffectDrawFrame(Cur, TRUE, isRunning)
       IN /\ Chains(L) <= MaxChains
          /\ Commit(L)
          /\ ev' = [NoEvent EXCEPT !.act = "CanvasCtxInit", !.fetches = L.fetches,
                                   !.run = isRunning]
    /\ UNCHANGED <<variant, settled, fetchFailed, phase, romLoaded, romStatus, isRunning, frameCount,
                   testMode, dialogs, toggles, canvas, controllerState, dispatched,
                   edges>>

\* a display tick: the browser runs a pending requestAnimationFrame(drawFrame)
drawFrameTick(c) ==
    /\ Main /\ c \in raf
    /\ LET L == drawFrame(Fired(Cur, c), TRUE, c.run)
       IN /\ Commit(L)
          /\ ev' = [NoEvent EXCEPT !.act = "Tick", !.fetches = L.fetches,
                                   !.run = c.run]
    /\ UNCHANGED <<variant, settled, fetchFailed, phase, canvasCtx, romLoaded, romStatus, isRunning,
                   frameCount, testMode, dialogs, toggles, canvas, controllerState,
                   dispatched, edges>>

\* drawFrame resumes after `await invoke('get_frame')`: request i was answered
\* with a payload of shape s, or rejected (s = "fail")
drawFrameResume(i, s) ==
    /\ Main /\ i \in 1..Len(inflight)
    /\ LET r == inflight[i]
           d == IF s = "fail" THEN drawFrameCatch(canvas)
                ELSE drawFrameBody(canvas, FrameData(s))
           L1 == Answered(Cur, i)
           L == IF ~d.stop /\ r.run THEN Schedule(L1, r.run) ELSE L1
       IN /\ Commit(L)
          /\ canvas' = d.canvas
          /\ fetchFailed' = (fetchFailed \/ s = "fail")
          /\ ev' = [NoEvent EXCEPT !.act = "Resume", !.shape = s, !.pos = i,
                                   !.run = r.run, !.outcome = d.outcome]
    /\ UNCHANGED <<variant, settled, phase, canvasCtx, romLoaded, romStatus, isRunning,
                   frameCount, testMode, dialogs, toggles, controllerState,
                   dispatched, edges>>

\* a Start/Stop button that also starts a reload of the program
onRunToggleReload ==
    /\ Main /\ UserReady /\ IncludesRom(romStatus)
    /\ isRunning' = ~isRunning
    /\ romStatus' = LoadingStatus
    /\ romLoaded' = FALSE
    /\ LET L == useEffectDrawFrame(Cur, canvasCtx, ~isRunning)
       IN /\ Chains(L) <= MaxChains
          /\ Commit(L)
          /\ ev' = [NoEvent EXCEPT !.act = "onRunToggle", !.fetches = L.fetches,
                                   !.run = ~isRunning]
    /\ UNCHANGED <<variant, settled, fetchFailed, phase, canvasCtx, frameCount,
                   testMode, dialogs, toggles, canvas, controllerState, dispatched,
                   edges>>

\* the Start/Stop button: setIsRunning(!isRunning), then the re-render
onRunToggle ==
    /\ Main /\ UserReady /\ IncludesRom(romStatus)
    /\ isRunning' = ~isRunning
    /\ LET L == useEffectDrawFrame(Cur, canvasCtx, ~isRunning)
       IN /\ Chains(L) <= MaxChains
          /\ Commit(L)
          /\ ev' = [NoEvent EXCEPT !.act = "onRunToggle", !.fetches = L.fetches,
                                   !.run = ~isRunning]
    /\ UNCHANGED <<variant, settled, fetchFailed, phase, canvasCtx, romLoaded, romStatus, frameCount,
                   testMode, dialogs, toggles, canvas, controllerState, dispatched,
                   edges>>

\* the effects' cleanups on unmount; React clears canvasRef.current
UnmountMain ==
    /\ Main /\ Mounted
    /\ phase' = "unmounted"
    /\ Commit(Cancel(Cur))
    /\ ev' = [NoEvent EXCEPT !.act = "Unmount"]
    /\ UNCHANGED <<variant, settled, fetchFailed, canvasCtx, romLoaded, romStatus, isRunning, frameCount,
                   testMode, dialogs, toggles, canvas, controllerState, dispatched,
                   edges>>


\* clearCanvas(): returns early when canvasRef.current is null
clearCanvas(cv) == IF Mounted THEN Paint(cv, "black", <<>>) ELSE cv

\* the Load button: openDialog() runs to `await open(...)`.  The invocation
\* keeps the drawFrame of the render it was created in: (ctx, run)
openDialog ==
    /\ Main /\ UserReady /\ Len(dialogs) < MaxDialogs
    /\ canvas' = clearCanvas(canvas)
    /\ dialogs' = Append(dialogs, [stage |-> "selecting", ctx |-> canvasCtx,
                                   run |-> isRunning])
    /\ ev' = [NoEvent EXCEPT !.act = "openDialog"]
    /\ UNCHANGED <<variant, settled, fetchFailed, phase, canvasCtx, romLoaded, romStatus, isRunning,
                   frameCount, testMode, animationFrameId, raf, inflight,
                   toggles, controllerState, dispatched, edges>>

\* open() resolved with null: lines 312-316.  A setter of an unmounted
\* component changes nothing
openDialogCancelled(j) ==
    /\ Main /\ j \in 1..Len(dialogs) /\ dialogs[j].stage = "selecting"
    /\ dialogs' = RemoveAt(dialogs, j)
    /\ romStatus' = IF Mounted THEN CanceledStatus ELSE romStatus
    /\ ev' = [NoEvent EXCEPT !.act = "selectCancelled"]
    /\ UNCHANGED <<variant, settled, fetchFailed, phase, canvasCtx, romLoaded, isRunning, frameCount,
                   testMode, animationFrameId, raf, inflight, toggles,
                   canvas, controllerState, dispatched, edges>>

\* a selection that keeps the status of an already loaded program
openDialogSelectedQuiet(j) ==
    /\ Main /\ j \in 1..Len(dialogs) /\ dialogs[j].stage = "selecting"
    /\ dialogs' = [dialogs EXCEPT ![j].stage = "loading"]
    /\ romStatus' = IF Mounted /\ ~romLoaded THEN LoadingStatus ELSE romStatus
    /\ ev' = [NoEvent EXCEPT !.act = "selectFile"]
    /\ UNCHANGED <<variant, settled, fetchFailed, phase, canvasCtx, romLoaded, isRunning, frameCount,
                   testMode, animationFrameId, raf, inflight, toggles,
                   canvas, controllerState, dispatched, edges>>

\* open() resolved with a path: lines 326-329, up to `await invoke('load_rom')`
openDialogSelected(j) ==
    /\ Main /\ j \in 1..Len(dialogs) /\ dialogs[j].stage = "selecting"
    /\ dialogs' = [dialogs EXCEPT ![j].stage = "loading"]
    /\ romStatus' = IF Mounted THEN LoadingStatus ELSE romStatus
    /\ ev' = [NoEvent EXCEPT !.act = "selectFile"]
    /\ UNCHANGED <<variant, settled, fetchFailed, phase, canvasCtx, romLoaded, isRunning, frameCount,
                   testMode, animationFrameId, raf, inflight, toggles,
                   canvas, controllerState, dispatched, edges>>

\* a load that leaves isRunning as it was
LoadedRunningKept == isRunning

\* line 338: setIsRunning(true)
LoadedRunning == TRUE

\* load_rom resolved: lines 330-347, then the re-render (drawFrame changes
\* identity when isRunning was false)
openDialogLoaded(j) ==
    /\ Main /\ j \in 1..Len(dialogs) /\ dialogs[j].stage = "loading"
    /\ dialogs' = RemoveAt(dialogs, j)
    /\ frameCount' = IF Mounted THEN 0 ELSE frameCount
    /\ romLoaded' = IF Mounted THEN TRUE ELSE romLoaded
    /\ romStatus' = IF Mounted THEN RomStatusOf(SelectedFile) ELSE romStatus
    /\ isRunning' = IF Mounted THEN LoadedRunning ELSE isRunning
    /\ LET L1 == drawFrame(Cur, dialogs[j].ctx, dialogs[j].run)
           L == IF Mounted /\ isRunning # LoadedRunning
                THEN useEffectDrawFrame(L1, canvasCtx, LoadedRunning) ELSE L1
       IN /\ Chains(L) <= MaxChains
          /\ Commit(L)
          /\ ev' = [NoEvent EXCEPT !.act = "loadOk", !.fetches = L.fetches,
                                   !.run = dialogs[j].run, !.manual = L1.fetches]
    /\ UNCHANGED <<variant, settled, fetchFailed, phase, canvasCtx, testMode, toggles, canvas,
                   controllerState, dispatched, edges>>

\* load_rom rejected: the catch block, lines 348-352
openDialogFailed(j, error) ==
    /\ Main /\ j \in 1..Len(dialogs) /\ dialogs[j].stage = "loading"
    /\ dialogs' = RemoveAt(dialogs, j)
    /\ romStatus' = IF Mounted THEN ErrorStatusOf(error) ELSE romStatus
    /\ romLoaded' = IF Mounted THEN FALSE ELSE romLoaded
    /\ ev' = [NoEvent EXCEPT !.act = "loadFailed"]
    /\ UNCHANGED <<variant, settled, fetchFailed, phase, canvasCtx, isRunning, frameCount, testMode,
                   animationFrameId, raf, inflight, toggles, canvas,
                   controllerState, dispatched, edges>>

NextMain ==
    \/ MountMain
    \/ CanvasCtxInit
    \/ \E c \in raf : drawFrameTick(c)
    \/ \E i \in 1..Len(inflight), s \in Shapes \cup {"fail"} : drawFrameResume(i, s)
    \/ onRunToggle
    \/ openDialog
    \/ \E j \in 1..Len(dialogs) : openDialogCancelled(j)
    \/ \E j \in 1..Len(dialogs) : openDialogSelected(j)
    \/ \E j \in 1..Len(dialogs) : openDialogLoaded(j)
    \/ \E j \in 1..Len(dialogs), e \in LoadErrors : openDialogFailed(j, e)
    \/ UnmountMain

InitMain == Init /\ variant = "part_001"
SpecMain == InitMain /\ [][NextMain]_vars


-----------------------------------------------------------------------------
(* src/src/App.tsx and src/unnamed/part_000 *)

Loop == variant \in LoopVariants

\* useEffect(..., [romLoaded]) re-run: the previous run's cleanup, then
\* requestAnimationFrame(runEmulatorLoop) with the new render's closure
useEffectRomLoaded(L, loaded) == Schedule(Cancel(L), loaded)

\* setRomLoaded(v) and the re-render: the effect re-runs only when the value
\* changed; a setter of an unmounted component changes nothing
setRomLoaded(L, v) ==
    IF Mounted /\ romLoaded # v THEN useEffectRomLoaded(L, v) ELSE L

MountLoop ==
    /\ Loop /\ phase = "init"
    /\ phase' = "mounted"
    /\ Commit(Schedule(Cur, romLoaded))
    /\ ev' = [NoEvent EXCEPT !.act = "Mount"]
    /\ UNCHANGED <<variant, settled, fetchFailed, canvasCtx, romLoaded, romStatus, isRunning, frameCount,
                   testMode, dialogs, toggles, canvas, controllerState, dispatched,
                   edges>>

\* a display tick: runEmulatorLoop, the closure that captured romLoaded = c.run,
\* runs to its await (romLoaded) or to its end (not romLoaded)
runEmulatorLoopTick(c) ==
    /\ Loop /\ c \in raf
    /\ LET L1 == Fired(Cur, c)
           L == IF c.run THEN Issue(L1, c.run) ELSE Schedule(L1, c.run)
       IN /\ Commit(L)
          /\ ev' = [NoEvent EXCEPT !.act = "Tick", !.fetches = L.fetches,
                                   !.run = c.run]
    /\ UNCHANGED <<variant, settled, fetchFailed, phase, canvasCtx, romLoaded, romStatus, isRunning,
                   frameCount, testMode, dialogs, toggles, canvas, controllerState,
                   dispatched, edges>>

\* drawFrame(frameData) of the mounted variant; it returns at once when
\* canvasRef.current is null
drawFrameLoop(cv, f) ==
    IF ~Mounted THEN [canvas |-> cv, outcome |-> "none", thrown |-> FALSE]
    ELSE IF variant = "part_000" THEN drawFrameDebug(cv, f)
    ELSE drawFrameApp(cv, f)

\* runEmulatorLoop resumes after `await invoke('run_emulator_frame')`
runEmulatorLoopResume(i, s) ==
    /\ Loop /\ i \in 1..Len(inflight)
    /\ LET r == inflight[i]
           d == IF s = "fail" THEN [canvas |-> canvas, outcome |-> "none", thrown |-> TRUE]
                ELSE drawFrameLoop(canvas, FrameData(s))
           loaded == IF d.thrown /\ Mounted THEN FALSE ELSE romLoaded
           L1 == Schedule(Answered(Cur, i), r.run)
           L == IF d.thrown THEN setRomLoaded(L1, FALSE) ELSE L1
       IN /\ Chains(L) <= MaxChains
          /\ Commit(L)
          /\ canvas' = d.canvas
          /\ romLoaded' = loaded
          /\ fetchFailed' = (fetchFailed \/ s = "fail")
          /\ ev' = [NoEvent EXCEPT !.act = "Resume", !.shape = s, !.pos = i,
                                   !.run = r.run, !.outcome = d.outcome]
    /\ UNCHANGED <<variant, settled, phase, canvasCtx, romStatus, isRunning, frameCount,
                   testMode, dialogs, toggles, controllerState, dispatched, edges>>

openDialogLoop ==
    /\ Loop /\ Mounted /\ Len(dialogs) < MaxDialogs
    /\ dialogs' = Append(dialogs, [stage |-> "selecting", ctx |-> FALSE,
                                   run |-> romLoaded])
    /\ ev' = [NoEvent EXCEPT !.act = "openDialog"]
    /\ UNCHANGED <<variant, settled, fetchFailed, phase, canvasCtx, romLoaded, romStatus, isRunning,
                   frameCount, testMode, animationFrameId, raf, inflight, toggles,
                   canvas, controllerState, dispatched, edges>>

\* a selection that also releases every button
openDialogLoopSelectedReset(j) ==
    /\ Loop /\ j \in 1..Len(dialogs) /\ dialogs[j].stage = "selecting"
    /\ dialogs' = [dialogs EXCEPT ![j].stage = "loading"]
    /\ controllerState' = [b \in Buttons |-> FALSE]
    /\ ev' = [NoEvent EXCEPT !.act = "selectFile"]
    /\ UNCHANGED <<variant, settled, fetchFailed, phase, canvasCtx, romLoaded, romStatus, isRunning,
                   frameCount, testMode, animationFrameId, raf, inflight, toggles,
                   canvas, dispatched, edges>>

\* open() resolved with a path: up to `await invoke('load_rom')`
openDialogLoopSelected(j) ==
    /\ Loop /\ j \in 1..Len(dialogs) /\ dialogs[j].stage = "selecting"
    /\ dialogs' = [dialogs EXCEPT ![j].stage = "loading"]
    /\ ev' = [NoEvent EXCEPT !.act = "selectFile"]
    /\ UNCHANGED <<variant, settled, fetchFailed, phase, canvasCtx, romLoaded, romStatus, isRunning,
                   frameCount, testMode, animationFrameId, raf, inflight, toggles,
                   canvas, controllerState, dispatched, edges>>

\* the three ends of openDialog: load_rom resolved (setRomLoaded(true)), load_rom
\* rejected, or the selection cancelled (both setRomLoaded(false))
openDialogLoopEnd(j, how) ==
    /\ Loop /\ j \in 1..Len(dialogs)
    /\ dialogs[j].stage = IF how = "selectCancelled" THEN "selecting" ELSE "loading"
    /\ dialogs' = RemoveAt(dialogs, j)
    /\ LET v == (how = "loadOk")
           L == setRomLoaded(Cur, v)
       IN /\ Chains(L) <= MaxChains
          /\ Commit(L)
          /\ romLoaded' = IF Mounted THEN v ELSE romLoaded
    /\ ev' = [NoEvent EXCEPT !.act = how]
    /\ UNCHANGED <<variant, settled, fetchFailed, phase, canvasCtx, romStatus, isRunning, frameCount,
                   testMode, toggles, canvas, controllerState, dispatched, edges>>

UnmountLoop ==
    /\ Loop /\ Mounted
    /\ phase' = "unmounted"
    /\ Commit(Cancel(Cur))
    /\ ev' = [NoEvent EXCEPT !.act = "Unmount"]
    /\ UNCHANGED <<variant, settled, fetchFailed, canvasCtx, romLoaded, romStatus, isRunning, frameCount,
                   testMode, dialogs, toggles, canvas, controllerState, dispatched,
                   edges>>

NextLoop ==
    \/ MountLoop
    \/ \E c \in raf : runEmulatorLoopTick(c)
    \/ \E i \in 1..Len(inflight), s \in Shapes \cup {"fail"} : runEmulatorLoopResume(i, s)
    \/ openDialogLoop
    \/ \E j \in 1..Len(dialogs) : openDialogLoopSelected(j)
    \/ \E j \in 1..Len(dialogs), how \in {"loadOk", "loadFailed", "selectCancelled"} :
          openDialogLoopEnd(j, how)
    \/ UnmountLoop

InitLoop == Init /\ variant \in LoopVariants
SpecLoop == InitLoop /\ [][NextLoop]_vars


-----------------------------------------------------------------------------
(* Keyboard input and the test-mode toggle *)

\* an invoke that drops a message equal to the one sent last
invokeCoalesced(q, msg) ==
    IF q # <<>> /\ q[Len(q)] = msg THEN q ELSE Append(q, msg)

\* invoke(cmd, args): the engine receives the messages in the order of the calls
invoke(q, msg) == Append(q, msg)

\* App.tsx line 62: controllerState[button] = isKeyDown
setButton(cs, button, isKeyDown) == [cs EXCEPT ![button] = isKeyDown]

\* App.tsx / part_000 handleKeyEvent(event, isKeyDown), for keydown and keyup
handleKeyEventLoop(code, isKeyDown) ==
    /\ Loop /\ Mounted /\ Len(edges) < MaxEdges
    /\ IF code \in MappedKeys
       THEN LET cs == setButton(controllerState, keyToButtonMap[code], isKeyDown)
            IN /\ controllerState' = cs
               /\ dispatched' = invoke(dispatched, [cmd |-> "handle_input", data |-> cs])
               /\ edges' = Append(edges, [code |-> code, pressed |-> isKeyDown])
               /\ settled' = Append(settled, "pending")
       ELSE UNCHANGED <<controllerState, dispatched, edges, settled>>
    /\ ev' = [NoEvent EXCEPT !.act = "key", !.code = code, !.down = isKeyDown]
    /\ UNCHANGED <<variant, fetchFailed, phase, canvasCtx, romLoaded, romStatus,
                   isRunning, frameCount, testMode, animationFrameId, raf, inflight,
                   dialogs, toggles, canvas>>

KeyMessage(code, pressed) ==
    [cmd |-> "handle_key_event", keyCode |-> code, pressed |-> pressed]

\* suppression on both edges
preventsDefaultBothEdges(code, pressed) ==
    code = "Space" \/ code \in ArrowKeys \/ code \in MappedKeys

\* part_001 lines 201-214: the three event.preventDefault() calls
preventsDefault(code, pressed) ==
    \/ code = "Space" /\ pressed
    \/ code \in ArrowKeys /\ pressed
    \/ code \in MappedKeys /\ pressed

\* a toggle on either edge of the space key
IsToggleEdgeBoth(code, pressed) == code = "Space"

\* part_001 lines 226-227: if (keyCode === 'Space') { if (pressed) { ... } }
IsToggleEdge(code, pressed) == code = "Space" /\ pressed

\* part_001 handleKeyEvent(event): a mapped key is forwarded as (keyCode,
\* pressed); a Space press is forwarded and flips testMode once acknowledged
handleKeyEvent(code, pressed) ==
    /\ Main /\ Mounted /\ Len(dispatched) < MaxEdges /\ Len(toggles) < MaxToggles
    /\ IF code \in MappedKeys
       THEN /\ dispatched' = invoke(dispatched, KeyMessage(code, pressed))
            /\ edges' = Append(edges, [code |-> code, pressed |-> pressed])
            /\ settled' = Append(settled, "pending")
            /\ UNCHANGED toggles
       ELSE IF IsToggleEdge(code, pressed)
       THEN /\ dispatched' = invoke(dispatched, KeyMessage(code, pressed))
            /\ toggles' = Append(toggles, "Space")
            /\ UNCHANGED <<edges, settled>>
       ELSE UNCHANGED <<dispatched, edges, toggles, settled>>
    /\ ev' = [NoEvent EXCEPT !.act = "key", !.code = code, !.down = pressed,
                             !.prevented = preventsDefault(code, pressed)]
    /\ UNCHANGED <<variant, fetchFailed, phase, canvasCtx, romLoaded, romStatus,
                   isRunning, frameCount, testMode, animationFrameId, raf, inflight,
                   dialogs, canvas, controllerState>>

\* the Test Mode button: a simulated Space press
onTestModeToggle ==
    /\ Main /\ UserReady /\ Len(toggles) < MaxToggles /\ Len(dispatched) < MaxEdges
    /\ dispatched' = invoke(dispatched, KeyMessage("Space", TRUE))
    /\ toggles' = Append(toggles, "button")
    /\ ev' = [NoEvent EXCEPT !.act = "onTestModeToggle"]
    /\ UNCHANGED <<variant, settled, fetchFailed, phase, canvasCtx, romLoaded, romStatus,
                   isRunning, frameCount, testMode, animationFrameId, raf, inflight,
                   dialogs, canvas, controllerState, edges>>

\* a flip computed from the flag the handler captured at mount (false)
\* instead of from the current flag
testModeSettledStale(k, ok) ==
    /\ Main /\ k \in 1..Len(toggles)
    /\ toggles' = RemoveAt(toggles, k)
    /\ testMode' = IF ok /\ Mounted THEN TRUE ELSE testMode
    /\ ev' = [NoEvent EXCEPT !.act = IF ok THEN "toggleAck" ELSE "toggleFailed",
                             !.code = toggles[k]]
    /\ UNCHANGED <<variant, settled, fetchFailed, phase, canvasCtx, romLoaded, romStatus,
                   isRunning, frameCount, animationFrameId, raf, inflight, dialogs,
                   canvas, controllerState, dispatched, edges>>

\* a round trip whose failure flips the flag as well
testModeSettledEither(k, ok) ==
    /\ Main /\ k \in 1..Len(toggles)
    /\ toggles' = RemoveAt(toggles, k)
    /\ testMode' = IF Mounted THEN ~testMode ELSE testMode
    /\ ev' = [NoEvent EXCEPT !.act = IF ok THEN "toggleAck" ELSE "toggleFailed",
                             !.code = toggles[k]]
    /\ UNCHANGED <<variant, settled, fetchFailed, phase, canvasCtx, romLoaded, romStatus,
                   isRunning, frameCount, animationFrameId, raf, inflight, dialogs,
                   canvas, controllerState, dispatched, edges>>

\* the engine answered round trip k: .then(() => setTestMode(prev => !prev)), or
\* .catch(console.error)
testModeSettled(k, ok) ==
    /\ Main /\ k \in 1..Len(toggles)
    /\ toggles' = RemoveAt(toggles, k)
    /\ testMode' = IF ok /\ Mounted THEN ~testMode ELSE testMode
    /\ ev' = [NoEvent EXCEPT !.act = IF ok THEN "toggleAck" ELSE "toggleFailed",
                             !.code = toggles[k]]
    /\ UNCHANGED <<variant, settled, fetchFailed, phase, canvasCtx, romLoaded, romStatus,
                   isRunning, frameCount, animationFrameId, raf, inflight, dialogs,
                   canvas, controllerState, dispatched, edges>>

\* the dispatches that answer key edges on mapped keys
KeyDispatches ==
    IF Main THEN SelectSeq(dispatched, LAMBDA m : m.keyCode \in MappedKeys)
    ELSE dispatched

\* a failed dispatch that is sent again
dispatchSettledRetry(k, ok) ==
    /\ (Main \/ Loop) /\ k \in 1..Len(settled) /\ settled[k] = "pending"
    /\ settled' = [settled EXCEPT ![k] = IF ok THEN "ok" ELSE "failed"]
    /\ dispatched' = IF ok THEN dispatched ELSE invoke(dispatched, KeyDispatches[k])
    /\ ev' = [NoEvent EXCEPT !.act = IF ok THEN "dispatchOk" ELSE "dispatchFailed"]
    /\ UNCHANGED <<variant, fetchFailed, phase, canvasCtx, romLoaded, romStatus,
                   isRunning, frameCount, testMode, animationFrameId, raf, inflight,
                   dialogs, toggles, canvas, controllerState, edges>>

\* the engine answered the dispatch for edge k: part_001 .catch(console.error)
\* logs a rejection; App.tsx / part_000 attach no handler at all
dispatchSettled(k, ok) ==
    /\ (Main \/ Loop) /\ k \in 1..Len(settled) /\ settled[k] = "pending"
    /\ settled' = [settled EXCEPT ![k] = IF ok THEN "ok" ELSE "failed"]
    /\ ev' = [NoEvent EXCEPT !.act = IF ok THEN "dispatchOk" ELSE "dispatchFailed"]
    /\ UNCHANGED <<variant, fetchFailed, phase, canvasCtx, romLoaded, romStatus,
                   isRunning, frameCount, testMode, animationFrameId, raf, inflight,
                   dialogs, toggles, canvas, controllerState, dispatched, edges>>

\* the input side of every version, from mount to unmount
NextInput ==
    \/ MountMain
    \/ CanvasCtxInit
    \/ MountLoop
    \/ \E code \in KeyCodes, down \in BOOLEAN : handleKeyEventLoop(code, down)
    \/ \E code \in KeyCodes, down \in BOOLEAN : handleKeyEvent(code, down)
    \/ onTestModeToggle
    \/ \E k \in 1..Len(toggles), ok \in BOOLEAN : testModeSettled(k, ok)
    \/ \E k \in 1..Len(settled), ok \in BOOLEAN : dispatchSettled(k, ok)
    \/ UnmountMain
    \/ UnmountLoop

SpecInput == Init /\ [][NextInput]_vars

-----------------------------------------------------------------------------
(* Any of the versions *)

Next == NextMain \/ NextLoop
Spec == Init /\ [][Next]_vars

-----------------------------------------------------------------------------
(* Claims *)

\* C1: in every reachable state at most one frame request has been issued and
\* not yet resolved.
C1_AtMostOneOutstanding == Len(inflight) <= 1

\* C2: once teardown (unmount) has begun, no step issues a frame request.
C2_NoFetchAfterTeardown == phase = "unmounted" => ev.fetches = 0

\* C3: a frame request that is rejected while the program is Ready and running
\* sets ProgramStatus to Error and running to false, and schedules no further
\* fetch.
C3_FetchFailureStops ==
    [][(/\ Main /\ Mounted /\ romLoaded /\ IncludesRom(romStatus) /\ isRunning
        /\ ev'.act = "Resume" /\ ev'.shape = "fail" /\ ev'.run)
       => (/\ IsErrorStatus(romStatus')
           /\ ~isRunning'
           /\ raf' \subseteq raf)]_vars

\* a loop closure that fetches is pending or has a request in flight
Armed == (\E c \in raf : c.run) \/ (\E i \in 1..Len(inflight) : inflight[i].run)

\* C4: after a frame request has been rejected, a successful file selection
\* sets the status to Loading, and the successful load that follows sets it to
\* Ready with running true and re-arms fetching: part_001 issues a frame
\* request in that very step, App.tsx and part_000 leave a fetching loop
\* scheduled.
C4_ReloadRearms ==
    /\ (Main /\ Mounted /\ ev.act = "selectFile") => romStatus = LoadingStatus
    /\ (Main /\ Mounted /\ fetchFailed /\ ev.act = "loadOk")
          => (/\ romStatus = RomStatusOf(SelectedFile)
              /\ romLoaded /\ isRunning
              /\ ev.fetches >= 1)
    /\ (Loop /\ Mounted /\ fetchFailed /\ ev.act = "loadOk") => (romLoaded /\ Armed)

\* a load succeeded after a rejected frame request had left no loop behind
C4_Witness ==
    /\ Main /\ Mounted /\ fetchFailed /\ ev.act = "loadOk"
    /\ raf = {} /\ ev.fetches >= 1 /\ Len(inflight) = ev.fetches

\* App.tsx lines 47-56: the controller state at the start of a session
AllReleased == [b \in Buttons |-> FALSE]

\* C5: every press or release of a mapped key dispatches the whole eight-field
\* ControllerState, in which the key's field is the pressed flag and every other
\* field has the value it had in the state dispatched before (all false at first).
C5_WholeStateDispatched ==
    [][(edges' # edges)
       => LET e == edges'[Len(edges')]
              d == dispatched'[Len(dispatched')]
              held == IF dispatched = <<>> THEN AllReleased
                      ELSE dispatched[Len(dispatched)].data
          IN /\ Len(dispatched') = Len(dispatched) + 1
             /\ "data" \in DOMAIN d
             /\ DOMAIN d.data = Buttons /\ Cardinality(Buttons) = 8
             /\ d.data[keyToButtonMap[e.code]] = e.pressed
             /\ \A b \in Buttons \ {keyToButtonMap[e.code]} :
                   d.data[b] = held[b]]_vars

\* C6: the dispatches for mapped keys are, one for one and in the same order,
\* the key edges that occurred.
C6_OneDispatchPerEdge ==
    /\ Len(KeyDispatches) = Len(edges)
    /\ \A k \in 1..Len(edges) :
          IF Main
          THEN KeyDispatches[k] = KeyMessage(edges[k].code, edges[k].pressed)
          ELSE KeyDispatches[k].data[keyToButtonMap[edges[k].code]] = edges[k].pressed

\* the same edge twice in a row (key repeat) gave two dispatches
C6_Witness ==
    /\ Len(edges) >= 2 /\ edges[1] = edges[2]
    /\ Len(KeyDispatches) >= 2 /\ KeyDispatches[1] = KeyDispatches[2]

\* C7: a payload shorter than width*height*4 bytes is never presented as a frame.
C7_ShortPayloadRejected ==
    (ev.act = "Resume" /\ ev.shape = "short") => ev.outcome # "presented"

\* C8: the Start/Stop button only flips running: the loaded program, its status
\* and the frame counter stay as they were and no load is started.
C8_ToggleOnlyFlipsRunning ==
    [][(ev'.act = "onRunToggle")
       => (/\ isRunning' = ~isRunning
           /\ romLoaded' = romLoaded /\ romStatus' = romStatus
           /\ frameCount' = frameCount /\ dialogs' = dialogs)]_vars

\* stopped and started again with the program still loaded
C8_Witness ==
    /\ Main /\ Mounted /\ ev.act = "onRunToggle"
    /\ isRunning /\ romLoaded /\ romStatus = RomStatusOf(SelectedFile)

\* C9: a valid frame that is presented answers the oldest outstanding request,
\* and the canvas then holds exactly its pixels with nothing drawn over them.
C9_PresentedInOrderExactly ==
    (Mounted /\ ev.act = "Resume" /\ ValidShape(ev.shape))
       => (/\ ev.outcome = "presented" /\ ev.pos = 1
           /\ canvas.paint = "image" /\ canvas.pix = FrameData(ev.shape).pixels)

\* the running flag a tick is meant to obey
running == IF Main THEN isRunning ELSE romLoaded

\* C10: a tick at which running is false issues no frame fetch and leaves a next
\* tick scheduled.
C10_IdleTick ==
    (Mounted /\ ev.act = "Tick" /\ ~running) => (ev.fetches = 0 /\ raf # {})

\* C11: after the engine rejected a load, the status is an error message and
\* running is false, also when a program was loaded and running before.
C11_LoadFailureStops ==
    (Mounted /\ ev.act = "loadFailed")
       => (~running /\ (Main => IsErrorStatus(romStatus)))

-----------------------------------------------------------------------------
(* src/src/App.tsx as a whole: the frame loop, the dialog and the keyboard.
   Two keys stand for all: one that is mapped and one that is not.  The
   answers to input dispatches are left out: nothing is attached to them. *)

SomeKeys == {"KeyZ", "KeyQ"}

NextApp ==
    \/ NextLoop
    \/ \E code \in SomeKeys, down \in BOOLEAN : handleKeyEventLoop(code, down)

InitApp == Init /\ variant = "App.tsx"
SpecApp == InitApp /\ [][NextApp]_vars

-----------------------------------------------------------------------------
(* src/src/app.tsx: the first version of the component *)

Legacy == variant = "app.tsx"

InitLegacy ==
    /\ variant = "app.tsx"
    /\ phase = "init"
    /\ canvasCtx = FALSE
    /\ romLoaded = FALSE
    /\ romStatus = <<>>
    /\ isRunning = FALSE
    /\ frameCount = 0
    /\ testMode = FALSE
    /\ animationFrameId = 0
    /\ raf = {}
    /\ inflight = <<>>
    /\ dialogs = <<>>
    /\ toggles = <<>>
    /\ canvas = [width |-> CanvasWidth, height |-> CanvasHeight,
                 paint |-> "blank", pix |-> <<>>]
    /\ controllerState = [b \in Buttons |-> FALSE]
    /\ dispatched = <<>>
    /\ edges = <<>>
    /\ fetchFailed = FALSE
    /\ settled = <<>>
    /\ ev = NoEvent

\* both effects of the first commit: the key listeners on window, and
\* frameRequestIdRef.current = requestAnimationFrame(runFrame)
MountLegacy ==
    /\ Legacy /\ phase = "init"
    /\ phase' = "mounted"
    /\ Commit(Schedule(Cur, TRUE))
    /\ ev' = [NoEvent EXCEPT !.act = "Mount"]
    /\ UNCHANGED <<variant, settled, fetchFailed, canvasCtx, romLoaded, romStatus, isRunning,
                   frameCount, testMode, dialogs, toggles, canvas, controllerState,
                   dispatched, edges>>

\* runFrame up to `await invoke("run_emulator_frame")`
runFrameTick(c) ==
    /\ Legacy /\ c \in raf
    /\ LET L == Issue(Fired(Cur, c), c.run)
       IN /\ Commit(L)
          /\ ev' = [NoEvent EXCEPT !.act = "Tick", !.fetches = L.fetches,
                                   !.run = c.run]
    /\ UNCHANGED <<variant, settled, fetchFailed, phase, canvasCtx, romLoaded, romStatus,
                   isRunning, frameCount, testMode, dialogs, toggles, canvas,
                   controllerState, dispatched, edges>>

\* runFrame lines 43-57: no drawing without a canvas or with a zero dimension;
\* the canvas keeps its size; Uint8ClampedArray of a string or of null is empty;
\* imageData.data.set throws when given more bytes than width*height*4
drawFrameLegacy(cv, f) ==
    LET need == f.width * f.height * BytesPerPixel
    IN IF ~Mounted \/ f.width = 0 \/ f.height = 0
       THEN [canvas |-> cv, outcome |-> "none", thrown |-> FALSE]
       ELSE IF Len(f.pixels) > need
       THEN [canvas |-> cv, outcome |-> "error", thrown |-> TRUE]
       ELSE [canvas |-> Paint(cv, "image", Pad(f.pixels, need)),
             outcome |-> "presented", thrown |-> FALSE]

\* runFrame after the await: the next frame is requested inside the try block,
\* so a rejected request or a throwing draw ends the loop in the catch block
runFrameResume(i, s) ==
    /\ Legacy /\ i \in 1..Len(inflight)
    /\ LET d == IF s = "fail" THEN [canvas |-> canvas, outcome |-> "none", thrown |-> TRUE]
                ELSE drawFrameLegacy(canvas, FrameData(s))
           L1 == Answered(Cur, i)
           L == IF d.thrown THEN L1 ELSE Schedule(L1, inflight[i].run)
       IN /\ Commit(L)
          /\ canvas' = d.canvas
          /\ fetchFailed' = (fetchFailed \/ s = "fail")
          /\ ev' = [NoEvent EXCEPT !.act = "Resume", !.shape = s, !.pos = i,
                                   !.run = inflight[i].run, !.outcome = d.outcome]
    /\ UNCHANGED <<variant, settled, phase, canvasCtx, romLoaded, romStatus, isRunning,
                   frameCount, testMode, dialogs, toggles, controllerState,
                   dispatched, edges>>

\* handleKeyDown / handleKeyUp: every key event is forwarded
handleKeyLegacy(code, pressed) ==
    /\ Legacy /\ Mounted /\ Len(dispatched) < MaxEdges
    /\ dispatched' = invoke(dispatched, [cmd |-> "handle_keyboard_event",
                                         keyCode |-> code, pressed |-> pressed])
    /\ ev' = [NoEvent EXCEPT !.act = "key", !.code = code, !.down = pressed]
    /\ UNCHANGED <<variant, settled, fetchFailed, phase, canvasCtx, romLoaded, romStatus,
                   isRunning, frameCount, testMode, animationFrameId, raf, inflight,
                   dialogs, toggles, canvas, controllerState, edges>>

\* loadROM(): invoke("load_rom"); either outcome is only logged
loadROM ==
    /\ Legacy /\ Mounted
    /\ ev' = [NoEvent EXCEPT !.act = "loadROM"]
    /\ UNCHANGED <<variant, settled, fetchFailed, phase, canvasCtx, romLoaded, romStatus,
                   isRunning, frameCount, testMode, animationFrameId, raf, inflight,
                   dialogs, toggles, canvas, controllerState, dispatched, edges>>

\* the cleanups: listeners removed, cancelAnimationFrame(frameRequestIdRef.current)
UnmountLegacy ==
    /\ Legacy /\ Mounted
    /\ phase' = "unmounted"
    /\ Commit(Cancel(Cur))
    /\ ev' = [NoEvent EXCEPT !.act = "Unmount"]
    /\ UNCHANGED <<variant, settled, fetchFailed, canvasCtx, romLoaded, romStatus, isRunning,
                   frameCount, testMode, dialogs, toggles, canvas, controllerState,
                   dispatched, edges>>

NextLegacy ==
    \/ MountLegacy
    \/ \E c \in raf : runFrameTick(c)
    \/ \E i \in 1..Len(inflight), s \in Shapes \cup {"fail"} : runFrameResume(i, s)
    \/ \E code \in KeyCodes, down \in BOOLEAN : handleKeyLegacy(code, down)
    \/ loadROM
    \/ UnmountLegacy

SpecLegacy == InitLegacy /\ [][NextLegacy]_vars

-----------------------------------------------------------------------------
(* The frame loop with a browser that runs every pending animation-frame
   callback and an engine that answers every request *)

Callbacks == [id : 1..(MaxChains + 2), run : BOOLEAN]
Answers == Shapes \cup {"fail"}

FairMain ==
    /\ SpecMain
    /\ \A c \in Callbacks : WF_vars(drawFrameTick(c))
    /\ \A i \in 1..MaxChains : WF_vars(\E s \in Answers : drawFrameResume(i, s))

FairLoop ==
    /\ SpecLoop
    /\ \A c \in Callbacks : WF_vars(runEmulatorLoopTick(c))
    /\ \A i \in 1..MaxChains : WF_vars(\E s \in Answers : runEmulatorLoopResume(i, s))

\* a frame fetch issued by the loop itself (a tick, or the effect that starts
\* the loop), not by openDialog's own drawFrame() call
ScheduledFetch == ev.fetches - ev.manual >= 1

\* C12: a successful load leaves the status at the loaded program, running true
\* and the frame counter 0, and from then on the loop itself eventually issues a
\* frame fetch (unless it is torn down or stopped first).
C12_LoadArmsScheduler ==
    /\ []((Mounted /\ ev.act = "loadOk")
            => (running /\ (Main => (romStatus = RomStatusOf(SelectedFile)
                                     /\ frameCount = 0))))
    /\ (Mounted /\ ev.act = "loadOk") ~> (ScheduledFetch \/ ~Mounted \/ ~running)

\* payloads that are not a frame: too few bytes, a non-positive dimension, or
\* pixels that are not an array
Malformed == {"short", "zerodim", "string", "null"}
Placeholders == {"invalid", "waiting", "error"}

\* C13: when a running loop receives a malformed payload it shows a placeholder,
\* leaves the status and running as they were, and schedules its next cycle.
C13_MalformedIsNonFatal ==
    [][(Mounted /\ running /\ ev'.act = "Resume" /\ ev'.run /\ ev'.shape \in Malformed)
       => (/\ ev'.outcome \in Placeholders
           /\ running' = running /\ romStatus' = romStatus
           /\ \E c \in raf' \ raf : c.run)]_vars

\* the status readout shows the loaded program and the Start/Stop button "Stop"
Ready == romStatus = RomStatusOf(SelectedFile) /\ isRunning

\* C14: before teardown, whenever the loop has ended (no callback pending, no
\* request in flight) or running is false, the status is not that of a running
\* program.
C14_NoSilentStop ==
    (Main /\ Mounted /\ canvasCtx /\ ((raf = {} /\ inflight = <<>>) \/ ~isRunning))
       => ~Ready

\* C15: a key event for a key that is neither mapped nor the space key changes
\* no ControllerState field and dispatches nothing to the engine.
C15_UnmappedKeyIgnored ==
    [][(ev'.act = "key" /\ ev'.code \notin MappedKeys \cup {"Space"})
       => (dispatched' = dispatched /\ controllerState' = controllerState)]_vars

\* C16: a rejected input dispatch changes neither the status nor running nor
\* the controller state, is not sent again, and key edges that follow are
\* dispatched as before.
C16_FailedDispatchNonFatal ==
    /\ [][(ev'.act = "dispatchFailed")
          => (/\ romStatus' = romStatus /\ romLoaded' = romLoaded
              /\ isRunning' = isRunning /\ controllerState' = controllerState
              /\ dispatched' = dispatched)]_vars
    /\ [][(edges' # edges) => Len(dispatched') = Len(dispatched) + 1]_vars

\* a mapped key edge was dispatched after the dispatch before it had failed
C16_Witness ==
    /\ ev.act = "key" /\ ev.code \in MappedKeys
    /\ Len(settled) = 2 /\ settled[1] = "failed" /\ settled[2] = "pending"
    /\ Len(KeyDispatches) = 2

\* C17: a press of the space key forwards exactly one key event and starts one
\* round trip, whose acknowledgement flips testMode once; a release of the space
\* key dispatches nothing and starts none; neither changes the controller state.
C17_SpaceTogglesTestMode ==
    /\ [][(Main /\ ev'.act = "key" /\ ev'.code = "Space")
          => (/\ controllerState' = controllerState /\ testMode' = testMode
              /\ IF ev'.down
                 THEN /\ dispatched' = Append(dispatched, KeyMessage("Space", TRUE))
                      /\ toggles' = Append(toggles, "Space")
                 ELSE dispatched' = dispatched /\ toggles' = toggles)]_vars
    /\ [][(Main /\ Mounted /\ ev'.act = "toggleAck" /\ ev'.code = "Space")
          => (/\ testMode' = ~testMode /\ Len(toggles') = Len(toggles) - 1
              /\ dispatched' = dispatched)]_vars

\* the space key was pressed and released, and the acknowledged press set the flag
C17_Witness ==
    /\ Main /\ Mounted /\ ev.act = "key" /\ ev.code = "Space" /\ ~ev.down
    /\ testMode /\ toggles = <<>> /\ dispatched = <<KeyMessage("Space", TRUE)>>

\* C18: testMode changes only when the engine acknowledges a toggle request: not
\* when the request is sent, not while it is in flight, not when it fails.
C18_FlipOnlyAfterAck ==
    /\ [][(testMode' # testMode) => ev'.act = "toggleAck"]_vars
    /\ [][(ev'.act \in {"toggleFailed", "onTestModeToggle"}) => testMode' = testMode]_vars

\* a request from the Test Mode button failed and the flag is as it was at first
C18_Witness ==
    /\ Main /\ Mounted /\ ev.act = "toggleFailed" /\ ev.code = "button"
    /\ ~testMode /\ dispatched = <<KeyMessage("Space", TRUE)>>

\* C19: a payload with more than width*height*4 bytes is presented as a frame
\* made of its first width*height*4 bytes.
C19_LongPayloadAccepted ==
    (Mounted /\ ev.act = "Resume" /\ ev.shape = "long")
       => (/\ ev.outcome = "presented"
           /\ canvas.pix = SubSeq(FrameData("long").pixels, 1,
                                  ShapeW("long") * ShapeH("long") * BytesPerPixel))

\* C20: a selection cancelled while no program was ever loaded leaves the status
\* readout at "Not Loaded" and running false, and no load is started.
C20_CancelFromEmpty ==
    [][(Mounted /\ ev'.act = "selectCancelled"
          /\ ~romLoaded /\ (Main => romStatus = NotLoadedStatus))
       => (/\ romStatus' = romStatus /\ ~romLoaded' /\ ~running'
           /\ \A j \in 1..Len(dialogs') : dialogs'[j].stage # "loading")]_vars

\* load_rom calls that have not been answered yet
Loads(d) == Cardinality({j \in 1..Len(d) : d[j].stage = "loading"})

\* C21: whatever the status, a file selection sets the status to "Loading ROM..."
\* and issues exactly one load_rom call.
C21_SelectionStartsLoad ==
    [][(Main /\ Mounted /\ ev'.act = "selectFile")
       => (/\ romStatus' = LoadingStatus
           /\ Loads(dialogs') = Loads(dialogs) + 1
           /\ Len(dialogs') = Len(dialogs))]_vars

\* a file was selected while the load of an earlier selection was still running
C21_Witness ==
    /\ Main /\ Mounted /\ ev.act = "selectFile"
    /\ Loads(dialogs) = 2 /\ romStatus = LoadingStatus

\* C22: while the status is an error message, no toggle and no tick sets
\* running or fetches a frame, and the status changes only to "Loading ROM..."
\* through a file selection.
C22_ErrorNeedsNewLoad ==
    [][(Main /\ Mounted /\ IsErrorStatus(romStatus))
       => (/\ ev'.act \in {"Tick", "onRunToggle"}
                 => (ev'.fetches = 0 /\ (isRunning' => isRunning))
           /\ romStatus' # romStatus
                 => (ev'.act = "selectFile" /\ romStatus' = LoadingStatus))]_vars

\* C23: the Start/Stop button is enabled only while the status is that of a
\* successfully loaded program.
C23_ToggleNeedsProgram ==
    (Main /\ Mounted /\ IncludesRom(romStatus))
       => (romLoaded /\ romStatus = RomStatusOf(SelectedFile))

\* C24: a frame request answered after the unmount leaves the canvas as it is
\* and schedules no callback.
C24_LateResultDiscarded ==
    [][(phase = "unmounted" /\ ev'.act = "Resume")
       => (canvas' = canvas /\ raf' \subseteq raf)]_vars

\* C25: after a frame has been presented the canvas has the width and height
\* the frame declared.
C25_CanvasMatchesFrame ==
    (~Legacy /\ ev.act = "Resume" /\ ev.outcome = "presented")
       => (canvas.width = ShapeW(ev.shape) /\ canvas.height = ShapeH(ev.shape))

\* a frame two pixels wide was presented on a canvas that held a narrower frame
\* or its initial size
C25_Witness ==
    /\ ~Legacy /\ Mounted /\ ev.act = "Resume" /\ ev.outcome = "presented"
    /\ ev.shape = "wide" /\ canvas.width = FrameW1 /\ Len(canvas.pix) = ShapeLen("wide")

\* C26: the default action is suppressed on the press of every mapped key and of
\* every arrow key, never on a release, and never for a key that is neither
\* mapped, nor an arrow key, nor the space key.
C26_DefaultSuppressedOnPress ==
    (Main /\ ev.act = "key")
       => (/\ (ev.down /\ ev.code \in MappedKeys \cup ArrowKeys) => ev.prevented
           /\ ~ev.down => ~ev.prevented
           /\ ev.code \notin MappedKeys \cup ArrowKeys \cup {"Space"} => ~ev.prevented)

\* an arrow key went down and its default action was suppressed
C26_Witness ==
    Main /\ ev.act = "key" /\ ev.code = "ArrowUp" /\ ev.down /\ ev.prevented

\* C27: running is true only while the status is that of the loaded program.
C27_RunningOnlyWhenReady ==
    (Main /\ Mounted /\ isRunning) => romStatus = RomStatusOf(SelectedFile)

\* C28: a frame request answered while running is false does not re-arm the
\* loop: the callback it schedules, if any, is not one that fetches.
C28_NoRearmAfterStop ==
    [][(Mounted /\ ev'.act = "Resume" /\ ~running')
       => (\A c \in raf' \ raf : ~c.run)]_vars

\* C29: pressing Start on a loaded, stopped program fetches a frame at once,
\* without any load; the restarted loop presents each valid frame it receives,
\* schedules its next tick, and that tick fetches again.
C29_RestartResumesLoop ==
    /\ [][(Main /\ Mounted /\ ev'.act = "onRunToggle" /\ isRunning')
          => (/\ ev'.fetches >= 1 /\ inflight'[Len(inflight')].run
              /\ dialogs' = dialogs /\ romStatus' = romStatus)]_vars
    /\ [][(Main /\ Mounted /\ ev'.act = "Resume" /\ ev'.run /\ ValidShape(ev'.shape))
          => (ev'.outcome = "presented" /\ \E c \in raf' \ raf : c.run)]_vars
    /\ [][(Main /\ Mounted /\ ev'.act = "Tick" /\ ev'.run) => ev'.fetches = 1]_vars

\* Start was pressed on the stopped program and its fetch is in flight
C29_Witness ==
    /\ Main /\ Mounted /\ ev.act = "onRunToggle" /\ ev.fetches = 1
    /\ isRunning /\ romLoaded /\ romStatus = RomStatusOf(SelectedFile)
    /\ inflight # <<>> /\ inflight[Len(inflight)].run

\* C30: the controller state is all false at first and changes only in a key
\* event on a mapped key: the dialog, loads, ticks and frame answers leave it.
C30_OnlyKeysChangeState ==
    /\ controllerState = AllReleased
    /\ [][(controllerState' # controllerState)
          => (ev'.act = "key" /\ ev'.code \in MappedKeys)]_vars

\* a load finished, and later a frame was presented, while a button was held
C30_Witness ==
    /\ variant = "App.tsx" /\ Mounted /\ romLoaded
    /\ ev.act = "Resume" /\ ev.outcome = "presented"
    /\ controllerState[keyToButtonMap["KeyZ"]] /\ edges # <<>>

\* C31: a selection cancelled while a program is loaded, with no other dialog
\* open, starts no load and leaves
\* running, the loaded flag, the status readout and the frame counter as they
\* were, so that the Start/Stop button stays enabled.
C31_CancelKeepsProgram ==
    [][(/\ Mounted /\ ev'.act = "selectCancelled" /\ romLoaded /\ Len(dialogs) = 1
        /\ (Main => romStatus = RomStatusOf(SelectedFile)))
       => (/\ romStatus' = romStatus /\ romLoaded' = romLoaded /\ running' = running
           /\ frameCount' = frameCount /\ Loads(dialogs') = Loads(dialogs)
           /\ (Main => IncludesRom(romStatus')))]_vars

\* C32: whatever the order in which toggle requests from the space key and from
\* the Test Mode button are sent and answered, every acknowledged request flips
\* testMode exactly once and no other step changes it, so that once all requests
\* are answered the flag is its first value flipped once per acknowledgement.
C32_OneFlipPerAck ==
    [][/\ (Main /\ Mounted /\ ev'.act = "toggleAck") => testMode' = ~testMode
       /\ (ev'.act # "toggleAck") => testMode' = testMode
       /\ (ev'.act \in {"toggleAck", "toggleFailed"})
             => (Len(toggles') = Len(toggles) - 1 /\ dispatched' = dispatched)]_vars

\* a request from the key and one from the button were in flight together; the
\* one from the key has been acknowledged and has flipped the flag, the one from
\* the button is still unanswered
C32_Witness ==
    /\ Main /\ Mounted /\ toggles = <<"button">> /\ testMode
    /\ ev.act = "toggleAck" /\ ev.code = "Space"
    /\ dispatched = <<KeyMessage("Space", TRUE), KeyMessage("Space", TRUE)>>

\* C33: the frame counter is 0 when a load succeeds, and while a program is
\* loaded and running every presented frame increases it by exactly one.
C33_CounterCountsFrames ==
    /\ [][(Main /\ Mounted /\ ev'.act = "loadOk") => frameCount' = 0]_vars
    /\ [][(/\ Main /\ Mounted /\ Ready
           /\ ev'.act = "Resume" /\ ev'.shape = "exact" /\ ev'.outcome = "presented")
          => frameCount' = frameCount + 1]_vars

=============================================================================
